---------------------------- MODULE Spec2Model ----------------------------
(***************************************************************************)
(* Negative-path cases of bench/session/wrongapp.go.                       *)
(*                                                                         *)
(* One Session method is one case: it builds a JSON request with one       *)
(* faulty field, sends it with s.Do, checks the status with                *)
(* checkStatusCode, decodes the body into resErr and, for three of the     *)
(* cases, compares the decoded message.  The model follows one actor's     *)
(* sequential stream of case invocations; pc is the position inside the    *)
(* current invocation.                                                     *)
(*                                                                         *)
(* Strings of the source that are not ASCII are written here as ASCII      *)
(* stand-ins; only their equality matters:                                 *)
(*   ItemPriceErrMsg      the constant of line 16                          *)
(*   ForbiddenMsg         the literal of line 255                          *)
(*   "RequestFailed"      the diagnostic of lines 39, 44, ...              *)
(*   "JSONDecodeFailed"   the diagnostic of lines 56, 89, ...              *)
(*   "WrongPriceError"    the diagnostic of line 126                       *)
(*   "NotExpectedError"   the suffix of the diagnostic of line 192         *)
(*   "NoForbiddenError"   the diagnostic of line 256                       *)
(***************************************************************************)
EXTENDS Naturals, Sequences, FiniteSets

VARIABLES
    pc,         \* position in the current case invocation
    call,       \* the case and its arguments
    req,        \* the request built by the case
    res,        \* the *http.Response of s.Do, NoRes while there is none
    err,        \* the local variable err
    re,         \* the decoded resErr.Error
    result,     \* the error value the case returns
    deferred,   \* "defer res.Body.Close()" has been registered
    sends,      \* transport invocations of this case invocation
    closes,     \* calls of res.Body.Close() in this case invocation
    bodyRead,   \* chunks of res.Body read so far
    trace,      \* the steps this case invocation has executed, in order
    csrfToken,  \* Session.csrfToken of every actor's session
    established,\* system under test: the token it established per actor
    listings,   \* system under test: number of listings created
    sold        \* system under test: the items marked sold

vars == <<pc, call, req, res, err, re, result, deferred, sends, closes,
          bodyRead, trace, csrfToken, established, listings, sold>>

invocation == <<call, req, res, err, re, result, deferred, sends, closes,
                bodyRead, trace>>

sut == <<established, listings, sold>>

--------------------------------------------------------------------------
(* Bounds of the model *)

MaxExtra == 1       \* chunks of a response body after the first JSON value
MaxListings == 2    \* listings the system under test may hold
NItems == 1         \* items known to the system under test

(* Program constants *)

ItemMinPrice == 100
ItemMaxPrice == 1000000
TokenBytes == 20
StatusBadRequest == 400
StatusUnauthorized == 401
StatusForbidden == 403
StatusUnprocessableEntity == 422

ItemPriceErrMsg == "ItemPriceErrMsg"
ForbiddenMsg == "ForbiddenMsg"

(* Messages of the system under test that the source does not name *)
CsrfErrMsg == "csrf token error"
NotForSaleMsg == "item is not for sale"
OwnItemMsg == "cannot buy own item"
CardErrMsg == "card error"
LoginErrMsg == "wrong account or password"

--------------------------------------------------------------------------
(* Input domains *)

Users == {"u1", "u2"}
Passwords == {"good", "bad"}
Prices == {99, 100, 500, 1000000, 1000001}
Items == 1..NItems
PayTokens == {"card_ok", "card_ng"}
Statuses == {200, StatusBadRequest, StatusUnauthorized, StatusForbidden,
             StatusUnprocessableEntity}
Msgs == {"", ItemPriceErrMsg, ForbiddenMsg, NotForSaleMsg}
ExpectedStatuses == {StatusBadRequest, StatusForbidden}
ExpectedMsgs == {"", NotForSaleMsg}

(* What crypto/rand can deliver: a failure, or TokenBytes random bytes     *)
(* (two representatives).                                                  *)
RandFail == "rand-fail"
Entropy == {"k1", "k2"}

NoErr == "nil"

Cases == {"LoginWithWrongPassword", "SellWithWrongCSRFToken",
          "SellWithWrongPrice", "BuyWithWrongCSRFToken", "BuyWithFailed",
          "ShipWithWrongCSRFToken", "ShipWithWrongSeller"}


--------------------------------------------------------------------------
(* Values *)

(* An anti-forgery token: the hex digits and their number.  A token the    *)
(* system under test issued and a forged one are different strings: 20     *)
(* random bytes collide with an issued token with probability 2^-160.      *)
NoToken == [hex |-> "", len |-> 0]
IssuedToken(u) == [hex |-> u, len |-> 2 * TokenBytes]

(* fmt.Sprintf("%x", k) of b random bytes k: two hex digits per byte *)
secureRandomStr(b, k) == [hex |-> k, len |-> 2 * b]

NoCall == [case |-> "", user |-> "", accountName |-> "", password |-> "",
           price |-> 0, itemID |-> 0, token |-> "",
           expectedStatus |-> 0, expectedMsg |-> ""]

NoReq == [path |-> "", csrfToken |-> NoToken, accountName |-> "",
          password |-> "", price |-> 0, itemID |-> 0, token |-> ""]

(* A response body: what the JSON decoder finds at its start, the message  *)
(* of the "error" field, and the chunks that follow the first JSON value.  *)
(*   envelope   an object with a string field "error"                      *)
(*   object     an object without a field "error", or null                 *)
(*   wrongtype  JSON that does not fit resErr ("error" is no string)       *)
(*   malformed  not JSON                                                   *)
(*   empty      no bytes at all                                            *)
BodyKinds == {"envelope", "object", "wrongtype", "malformed", "empty"}

Body(kind, msg, extra) == [kind |-> kind, msg |-> msg, extra |-> extra]

Bodies ==
    {Body("envelope", m, x) : m \in Msgs, x \in 0..MaxExtra}
    \cup {Body(k, "", x) : k \in {"object", "wrongtype", "malformed"},
                           x \in 0..MaxExtra}
    \cup {Body("empty", "", 0)}

Chunks(body) == IF body.kind = "empty" THEN 0 ELSE 1 + body.extra

NoRes == [status |-> 0, body |-> Body("empty", "", 0)]

Responses == {[status |-> st, body |-> b] : st \in Statuses, b \in Bodies}

(* The error value a case returns: nil, or a failure with its cause and    *)
(* its diagnostic "POST <path>: <text>".                                   *)
NoDiag == [method |-> "", path |-> "", text |-> "", detail |-> ""]
Diag(path, text, detail) ==
    [method |-> "POST", path |-> path, text |-> text, detail |-> detail]

Nil == [isNil |-> TRUE, cause |-> NoErr, diag |-> NoDiag]
Pending == [isNil |-> FALSE, cause |-> "pending", diag |-> NoDiag]
NewError(e, d) == [isNil |-> FALSE, cause |-> e, diag |-> d]

--------------------------------------------------------------------------
(* The oracle of every case *)

ForgedCases == {"SellWithWrongCSRFToken", "BuyWithWrongCSRFToken",
                "ShipWithWrongCSRFToken", "ShipWithWrongSeller"}
ExactCases == {"SellWithWrongPrice", "BuyWithFailed", "ShipWithWrongSeller"}
DontCareCases == Cases \ ExactCases

Path(case) ==
    CASE case = "LoginWithWrongPassword" -> "/login"
      [] case \in {"SellWithWrongCSRFToken", "SellWithWrongPrice"} -> "/sell"
      [] case \in {"BuyWithWrongCSRFToken", "BuyWithFailed"} -> "/buy"
      [] OTHER -> "/ship"

ExpectedStatus(c) ==
    CASE c.case = "LoginWithWrongPassword" -> StatusUnauthorized
      [] c.case = "SellWithWrongCSRFToken" -> StatusUnprocessableEntity
      [] c.case = "SellWithWrongPrice" -> StatusBadRequest
      [] c.case = "BuyWithWrongCSRFToken" -> StatusUnprocessableEntity
      [] c.case = "BuyWithFailed" -> c.expectedStatus
      [] c.case = "ShipWithWrongCSRFToken" -> StatusUnprocessableEntity
      [] OTHER -> StatusForbidden

ExpectedMsg(c) ==
    CASE c.case = "SellWithWrongPrice" -> ItemPriceErrMsg
      [] c.case = "BuyWithFailed" -> c.expectedMsg
      [] OTHER -> ForbiddenMsg

MessageDiag(c) ==
    CASE c.case = "SellWithWrongPrice" -> Diag("/sell", "WrongPriceError", "")
      [] c.case = "BuyWithFailed" ->
             Diag("/buy", "NotExpectedError", c.expectedMsg)
      [] OTHER -> Diag("/ship", "NoForbiddenError", "")

(* checkStatusCode(res, expected): the pair (msg, err) *)
checkStatusCode(r, expected) ==
    IF r.status # expected
    THEN [msg |-> "StatusMismatch", err |-> "StatusErr"]
    ELSE [msg |-> "", err |-> NoErr]

(* json.NewDecoder(res.Body).Decode(&re): the error and re.Error *)
Decode(body) ==
    CASE body.kind = "envelope" -> [err |-> NoErr, Error |-> body.msg]
      [] body.kind = "object" -> [err |-> NoErr, Error |-> ""]
      [] body.kind = "wrongtype" -> [err |-> "UnmarshalTypeError", Error |-> ""]
      [] body.kind = "malformed" -> [err |-> "SyntaxError", Error |-> ""]
      [] OTHER -> [err |-> "EOF", Error |-> ""]

(* The decoder reads up to the end of the first JSON value and no further *)
DecodeReads(body) == IF Chunks(body) = 0 THEN 0 ELSE 1


--------------------------------------------------------------------------
(* The system under test, as the cases expect it to behave: every          *)
(* state-changing request is checked for its anti-forgery token first,     *)
(* then for the rule the case is about.  Item i is listed by Seller(i).    *)

CorrectPassword == "good"
Seller(i) == IF i % 2 = 1 THEN "u1" ELSE "u2"

Reject(status, msg) == [status |-> status, body |-> Body("envelope", msg, 0)]
Accept == [status |-> 200, body |-> Body("object", "", 0)]

SutLogin(rq) ==
    IF rq.password = CorrectPassword
    THEN Accept
    ELSE Reject(StatusUnauthorized, LoginErrMsg)

SutSell(rq, u) ==
    IF rq.csrfToken # established[u]
    THEN Reject(StatusUnprocessableEntity, CsrfErrMsg)
    ELSE IF rq.price < ItemMinPrice \/ rq.price > ItemMaxPrice
         THEN Reject(StatusBadRequest, ItemPriceErrMsg)
         ELSE Accept

SutBuy(rq, u, soldItems) ==
    IF rq.csrfToken # established[u]
    THEN Reject(StatusUnprocessableEntity, CsrfErrMsg)
    ELSE IF rq.itemID \in soldItems
         THEN Reject(StatusForbidden, NotForSaleMsg)
         ELSE IF Seller(rq.itemID) = u
              THEN Reject(StatusForbidden, OwnItemMsg)
              ELSE IF rq.token # "card_ok"
                   THEN Reject(StatusBadRequest, CardErrMsg)
                   ELSE Accept

SutShip(rq, u) ==
    IF rq.csrfToken # established[u]
    THEN Reject(StatusUnprocessableEntity, CsrfErrMsg)
    ELSE IF Seller(rq.itemID) # u
         THEN Reject(StatusForbidden, ForbiddenMsg)
         ELSE Accept

SutResponseAt(rq, u, soldItems) ==
    CASE rq.path = "/login" -> SutLogin(rq)
      [] rq.path = "/sell" -> SutSell(rq, u)
      [] rq.path = "/buy" -> SutBuy(rq, u, soldItems)
      [] OTHER -> SutShip(rq, u)

SutResponse(rq, u) == SutResponseAt(rq, u, sold)

(* An accepted sell creates a listing, an accepted buy marks the item sold *)
SutListings(rq, u) ==
    IF rq.path = "/sell" /\ SutSell(rq, u) = Accept
    THEN listings + 1
    ELSE listings

SutSold(rq, u) ==
    IF rq.path = "/buy" /\ SutBuy(rq, u, sold) = Accept
    THEN sold \cup {rq.itemID}
    ELSE sold

--------------------------------------------------------------------------
(* State after construction: every session is logged in and holds the      *)
(* token the system under test established for it.                         *)

Init ==
    /\ pc = "idle"
    /\ call = NoCall
    /\ req = NoReq
    /\ res = NoRes
    /\ err = NoErr
    /\ re = ""
    /\ result = Pending
    /\ deferred = FALSE
    /\ sends = 0
    /\ closes = 0
    /\ bodyRead = 0
    /\ trace = <<>>
    /\ established = [u \in Users |-> IssuedToken(u)]
    /\ csrfToken = [u \in Users |-> IssuedToken(u)]
    /\ listings = 0
    /\ sold = {}

--------------------------------------------------------------------------
(* Building the request: json.Marshal of the payload and newPostRequest.   *)
(* A case starts when the previous one has returned.                       *)

Build(c, rq, reqErr) ==
    /\ pc \in {"idle", "done"}
    /\ call' = c
    /\ res' = NoRes
    /\ re' = ""
    /\ deferred' = FALSE
    /\ sends' = 0
    /\ closes' = 0
    /\ bodyRead' = 0
    /\ trace' = <<"build">>
    /\ IF reqErr
       THEN /\ req' = NoReq
            /\ err' = "newPostRequestErr"
            /\ result' = NewError("newPostRequestErr",
                                  Diag(rq.path, "RequestFailed", ""))
            /\ pc' = "ret"
       ELSE /\ req' = rq
            /\ err' = NoErr
            /\ result' = Pending
            /\ pc' = "send"
    /\ UNCHANGED <<csrfToken, sut>>

(* Mutant: the failure of the random source is returned as a per-case      *)
(* failure instead of a panic.                                             *)
PanicAsFailure(c) ==
    /\ pc \in {"idle", "done"}
    /\ call' = c
    /\ req' = NoReq
    /\ res' = NoRes
    /\ err' = "crandReadErr"
    /\ re' = ""
    /\ result' = NewError("crandReadErr",
                          Diag(Path(c.case), "RequestFailed", ""))
    /\ deferred' = FALSE
    /\ sends' = 0
    /\ closes' = 0
    /\ bodyRead' = 0
    /\ trace' = <<"build">>
    /\ pc' = "ret"
    /\ UNCHANGED <<csrfToken, sut>>

(* panic(err) of secureRandomStr: the goroutine unwinds, the case never    *)
(* returns and nothing was sent.                                           *)
Panic(c) ==
    /\ pc \in {"idle", "done"}
    /\ call' = c
    /\ req' = NoReq
    /\ res' = NoRes
    /\ err' = "crandReadErr"
    /\ re' = ""
    /\ result' = Pending
    /\ deferred' = FALSE
    /\ sends' = 0
    /\ closes' = 0
    /\ bodyRead' = 0
    /\ trace' = <<"build">>
    /\ pc' = "panicked"
    /\ UNCHANGED <<csrfToken, sut>>

LoginWithWrongPassword(u, accountName, password) ==
    \E reqErr \in BOOLEAN :
        Build([NoCall EXCEPT !.case = "LoginWithWrongPassword", !.user = u,
                             !.accountName = accountName,
                             !.password = password],
              [NoReq EXCEPT !.path = "/login", !.accountName = accountName,
                            !.password = password],
              reqErr)

(* Mutant: the forged-token sell sends the session's own token *)
SellWithValidCSRFToken(u, price) ==
    \E reqErr \in BOOLEAN :
        Build([NoCall EXCEPT !.case = "SellWithWrongCSRFToken", !.user = u,
                             !.price = price],
              [NoReq EXCEPT !.path = "/sell", !.csrfToken = csrfToken[u],
                            !.price = price],
              reqErr)

SellWithWrongCSRFToken(u, price) ==
    LET c == [NoCall EXCEPT !.case = "SellWithWrongCSRFToken", !.user = u,
                            !.price = price]
    IN  \E k \in Entropy \cup {RandFail} :
            IF k = RandFail
            THEN Panic(c)
            ELSE \E reqErr \in BOOLEAN :
                     Build(c,
                           [NoReq EXCEPT !.path = "/sell",
                               !.csrfToken = secureRandomStr(TokenBytes, k),
                               !.price = price],
                           reqErr)

(* Mutant: the wrong-price sell sends a forged token *)
SellWithWrongPriceForged(u, price) ==
    \E k \in Entropy, reqErr \in BOOLEAN :
        Build([NoCall EXCEPT !.case = "SellWithWrongPrice", !.user = u,
                             !.price = price],
              [NoReq EXCEPT !.path = "/sell",
                            !.csrfToken = secureRandomStr(TokenBytes, k),
                            !.price = price],
              reqErr)

SellWithWrongPrice(u, price) ==
    \E reqErr \in BOOLEAN :
        Build([NoCall EXCEPT !.case = "SellWithWrongPrice", !.user = u,
                             !.price = price],
              [NoReq EXCEPT !.path = "/sell", !.csrfToken = csrfToken[u],
                            !.price = price],
              reqErr)

BuyWithWrongCSRFToken(u, itemID, token) ==
    LET c == [NoCall EXCEPT !.case = "BuyWithWrongCSRFToken", !.user = u,
                            !.itemID = itemID, !.token = token]
    IN  \E k \in Entropy \cup {RandFail} :
            IF k = RandFail
            THEN Panic(c)
            ELSE \E reqErr \in BOOLEAN :
                     Build(c,
                           [NoReq EXCEPT !.path = "/buy",
                               !.csrfToken = secureRandomStr(TokenBytes, k),
                               !.itemID = itemID, !.token = token],
                           reqErr)

BuyWithFailed(u, itemID, token, expectedStatus, expectedMsg) ==
    \E reqErr \in BOOLEAN :
        Build([NoCall EXCEPT !.case = "BuyWithFailed", !.user = u,
                             !.itemID = itemID, !.token = token,
                             !.expectedStatus = expectedStatus,
                             !.expectedMsg = expectedMsg],
              [NoReq EXCEPT !.path = "/buy", !.csrfToken = csrfToken[u],
                            !.itemID = itemID, !.token = token],
              reqErr)

ShipWithWrongCSRFToken(u, itemID) ==
    LET c == [NoCall EXCEPT !.case = "ShipWithWrongCSRFToken", !.user = u,
                            !.itemID = itemID]
    IN  \E k \in Entropy \cup {RandFail} :
            IF k = RandFail
            THEN Panic(c)
            ELSE \E reqErr \in BOOLEAN :
                     Build(c,
                           [NoReq EXCEPT !.path = "/ship",
                               !.csrfToken = secureRandomStr(TokenBytes, k),
                               !.itemID = itemID],
                           reqErr)

ShipWithWrongSeller(u, itemID) ==
    LET c == [NoCall EXCEPT !.case = "ShipWithWrongSeller", !.user = u,
                            !.itemID = itemID]
    IN  \E k \in Entropy \cup {RandFail} :
            IF k = RandFail
            THEN Panic(c)
            ELSE \E reqErr \in BOOLEAN :
                     Build(c,
                           [NoReq EXCEPT !.path = "/ship",
                               !.csrfToken = secureRandomStr(TokenBytes, k),
                               !.itemID = itemID],
                           reqErr)


--------------------------------------------------------------------------
(* res, err := s.Do(req); on an error the case returns, otherwise          *)
(* "defer res.Body.Close()" is registered.  r = NoRes is a transport       *)
(* failure.                                                                *)

(* Mutant: a failed transport invocation is tried again *)
TransportRetries(r) ==
    /\ pc = "send"
    /\ sends' = sends + 1
    /\ trace' = IF sends = 0 THEN Append(trace, "send") ELSE trace
    /\ res' = r
    /\ IF r = NoRes
       THEN /\ err' = "transportErr"
            /\ result' = result
            /\ deferred' = FALSE
            /\ pc' = IF sends = 0 THEN "send" ELSE "ret"
       ELSE /\ err' = NoErr
            /\ result' = result
            /\ deferred' = TRUE
            /\ pc' = "status"
    /\ UNCHANGED <<call, req, re, closes, bodyRead, csrfToken>>

Transport(r) ==
    /\ pc = "send"
    /\ sends' = sends + 1
    /\ trace' = Append(trace, "send")
    /\ res' = r
    /\ IF r = NoRes
       THEN /\ err' = "transportErr"
            /\ result' = NewError("transportErr",
                                  Diag(req.path, "RequestFailed", ""))
            /\ deferred' = FALSE
            /\ pc' = "ret"
       ELSE /\ err' = NoErr
            /\ result' = result
            /\ deferred' = TRUE
            /\ pc' = "status"
    /\ UNCHANGED <<call, req, re, closes, bodyRead, csrfToken>>

(* The peer answers anything at all, or the transport fails *)
Do ==
    /\ \E r \in Responses \cup {NoRes} : Transport(r)
    /\ UNCHANGED sut

(* The transport fails before the system under test sees the request *)
DoFail ==
    /\ Transport(NoRes)
    /\ UNCHANGED sut

(* The peer is the system under test *)
DoSUT ==
    /\ Transport(SutResponse(req, call.user))
    /\ SutListings(req, call.user) <= MaxListings
    /\ listings' = SutListings(req, call.user)
    /\ sold' = SutSold(req, call.user)
    /\ UNCHANGED established

(* Mutant: the status mismatch is noted but the case goes on to decode *)
CheckStatusContinues ==
    /\ pc = "status"
    /\ trace' = Append(trace, "status")
    /\ err' = checkStatusCode(res, ExpectedStatus(call)).err
    /\ pc' = "decode"
    /\ UNCHANGED <<call, req, res, re, result, deferred, sends, closes,
                   bodyRead, csrfToken, sut>>

(* msg, err := checkStatusCode(res, expected); on a mismatch the case      *)
(* returns.  Whether checkStatusCode reads the body for its diagnostic is  *)
(* not visible from the case functions: both are possible.                 *)
CheckStatus ==
    /\ pc = "status"
    /\ trace' = Append(trace, "status")
    /\ LET chk == checkStatusCode(res, ExpectedStatus(call))
       IN  /\ err' = chk.err
           /\ IF chk.err # NoErr
              THEN /\ result' = NewError(chk.err,
                                         Diag(Path(call.case), chk.msg, ""))
                   /\ \E drain \in BOOLEAN :
                          bodyRead' = IF drain THEN Chunks(res.body)
                                               ELSE bodyRead
                   /\ pc' = "ret"
              ELSE /\ result' = result
                   /\ bodyRead' = bodyRead
                   /\ pc' = "decode"
    /\ UNCHANGED <<call, req, res, re, deferred, sends, closes, csrfToken,
                   sut>>

(* Mutant: the decoder's error is dropped *)
DecodeBodyIgnoringError ==
    /\ pc = "decode"
    /\ trace' = Append(trace, "decode")
    /\ bodyRead' = DecodeReads(res.body)
    /\ err' = NoErr
    /\ re' = Decode(res.body).Error
    /\ IF call.case \in ExactCases
       THEN /\ result' = result
            /\ pc' = "message"
       ELSE /\ result' = Nil
            /\ pc' = "ret"
    /\ UNCHANGED <<call, req, res, deferred, sends, closes, csrfToken, sut>>

(* err = json.NewDecoder(res.Body).Decode(&re); on an error the case       *)
(* returns; a case without a message check returns nil.                    *)
DecodeBody ==
    /\ pc = "decode"
    /\ trace' = Append(trace, "decode")
    /\ bodyRead' = DecodeReads(res.body)
    /\ LET d == Decode(res.body)
       IN  /\ err' = d.err
           /\ re' = d.Error
           /\ IF d.err # NoErr
              THEN /\ result' = NewError(d.err, Diag(Path(call.case),
                                                     "JSONDecodeFailed", ""))
                   /\ pc' = "ret"
              ELSE IF call.case \in ExactCases
                   THEN /\ result' = result
                        /\ pc' = "message"
                   ELSE /\ result' = Nil
                        /\ pc' = "ret"
    /\ UNCHANGED <<call, req, res, deferred, sends, closes, csrfToken, sut>>

(* Mutant: an empty expected message means "don't care" *)
CheckMessageEmptyIsDontCare ==
    /\ pc = "message"
    /\ trace' = Append(trace, "message")
    /\ result' = IF ExpectedMsg(call) # "" /\ re # ExpectedMsg(call)
                 THEN NewError(err, MessageDiag(call))
                 ELSE Nil
    /\ pc' = "ret"
    /\ UNCHANGED <<call, req, res, err, re, deferred, sends, closes,
                   bodyRead, csrfToken, sut>>

(* if re.Error != expected { return fails.NewError(err, ...) }; return nil *)
(* err is the decoder's error, which is nil here.                          *)
CheckMessage ==
    /\ pc = "message"
    /\ trace' = Append(trace, "message")
    /\ result' = IF re # ExpectedMsg(call)
                 THEN NewError(err, MessageDiag(call))
                 ELSE Nil
    /\ pc' = "ret"
    /\ UNCHANGED <<call, req, res, err, re, deferred, sends, closes,
                   bodyRead, csrfToken, sut>>

(* Mutant: the body is not closed on return *)
ReturnWithoutClose ==
    /\ pc = "ret"
    /\ closes' = closes
    /\ deferred' = FALSE
    /\ pc' = "done"
    /\ UNCHANGED <<call, req, res, err, re, result, sends, bodyRead, trace,
                   csrfToken, sut>>

(* The return: the deferred res.Body.Close() runs *)
Return ==
    /\ pc = "ret"
    /\ closes' = IF deferred THEN closes + 1 ELSE closes
    /\ deferred' = FALSE
    /\ pc' = "done"
    /\ UNCHANGED <<call, req, res, err, re, result, sends, bodyRead, trace,
                   csrfToken, sut>>

--------------------------------------------------------------------------
Invoke ==
    \/ \E u \in Users, a \in Users, p \in Passwords :
           LoginWithWrongPassword(u, a, p)
    \/ \E u \in Users, p \in Prices : SellWithWrongCSRFToken(u, p)
    \/ \E u \in Users, p \in Prices : SellWithWrongPrice(u, p)
    \/ \E u \in Users, i \in Items, t \in PayTokens :
           BuyWithWrongCSRFToken(u, i, t)
    \/ \E u \in Users, i \in Items, t \in PayTokens,
          st \in ExpectedStatuses, m \in ExpectedMsgs :
           BuyWithFailed(u, i, t, st, m)
    \/ \E u \in Users, i \in Items : ShipWithWrongCSRFToken(u, i)
    \/ \E u \in Users, i \in Items : ShipWithWrongSeller(u, i)

(* The cases against an arbitrary peer *)
Next ==
    \/ Invoke
    \/ Do
    \/ CheckStatus
    \/ DecodeBody
    \/ CheckMessage
    \/ Return

Spec == Init /\ [][Next]_vars

(* The cases against the system under test *)
NextSUT ==
    \/ Invoke
    \/ DoFail
    \/ DoSUT
    \/ CheckStatus
    \/ DecodeBody
    \/ CheckMessage
    \/ Return

SpecSUT == Init /\ [][NextSUT]_vars


--------------------------------------------------------------------------
(* Vocabulary of the properties *)

Returned == pc = "done"
Answered == res # NoRes
IsCase(name) == call.case = name

StepOrder == <<"build", "send", "status", "decode", "message">>

IsPrefix(t, of) ==
    /\ Len(t) <= Len(of)
    /\ \A i \in 1..Len(t) : t[i] = of[i]

(* The step a diagnostic text belongs to; "send" stands for both the       *)
(* request construction and the transport invocation, which share a text.  *)
StepOfText(text) ==
    CASE text = "RequestFailed" -> "send"
      [] text = "StatusMismatch" -> "status"
      [] text = "JSONDecodeFailed" -> "decode"
      [] OTHER -> "message"

LastStep == IF trace[Len(trace)] = "build" THEN "send" ELSE trace[Len(trace)]

(* The body is JSON that json.Decoder accepts for resErr *)
BodyDecodes == res.body.kind \in {"envelope", "object"}
DecodedMessage == IF res.body.kind = "envelope" THEN res.body.msg ELSE ""

PriceOutOfRange == call.price < 100 \/ call.price > 1000000

--------------------------------------------------------------------------
\* C1 (as claimed): once the transport has returned a response, the body is
\* fully consumed and closed exactly once before the case returns; on a
\* transport failure no body is closed.
C1_ConsumedAndClosedOnce ==
    Returned =>
        IF Answered
        THEN closes = 1 /\ bodyRead = Chunks(res.body)
        ELSE closes = 0

\* C1 (amended): once the transport has returned a response, the body is
\* closed exactly once, when the case returns and not before; on a failure
\* of the request construction or of the transport no body is closed.
C1_ClosedExactlyOnce ==
    /\ Returned => closes = (IF Answered THEN 1 ELSE 0)
    /\ ~Returned => closes = 0

C1_Witness ==
    /\ Returned
    /\ Answered
    /\ res.status # ExpectedStatus(call)
    /\ closes = 1
    /\ bodyRead < Chunks(res.body)

\* C2: a status mismatch makes the case fail with the status diagnostic
\* without decoding or comparing a message; the steps run in the order build,
\* send, check-status, decode, check-message, and a failure carries the
\* diagnostic of the last step that ran.
C2_StatusMismatchFirst ==
    /\ IsPrefix(trace, StepOrder)
    /\ (Returned /\ Answered /\ res.status # ExpectedStatus(call)) =>
           /\ ~result.isNil
           /\ result.diag.text = "StatusMismatch"
           /\ trace = <<"build", "send", "status">>
           /\ re = ""
    /\ (Returned /\ ~result.isNil) => StepOfText(result.diag.text) = LastStep
    /\ (Returned /\ result.isNil) =>
           trace = IF call.case \in ExactCases
                   THEN StepOrder
                   ELSE <<"build", "send", "status", "decode">>

C2_Witness ==
    /\ Returned
    /\ Answered
    /\ res.status # ExpectedStatus(call)
    /\ res.body.kind = "malformed"
    /\ ~result.isNil

\* C3: when the request construction or the transport invocation fails, the
\* case returns at once a failure with the diagnostic "POST <path>: request
\* failed", without a status check or a decode; a case invocation invokes the
\* transport at most once.
C3_RequestFailedNoRetry ==
    /\ sends <= 1
    /\ (Returned /\ ~Answered) =>
           /\ ~result.isNil
           /\ result.cause \in {"newPostRequestErr", "transportErr"}
           /\ result.diag = Diag(Path(call.case), "RequestFailed", "")
           /\ trace \in {<<"build">>, <<"build", "send">>}
           /\ sends = Len(trace) - 1
           /\ bodyRead = 0

C3_Witness ==
    /\ Returned
    /\ ~Answered
    /\ sends = 1
    /\ IsCase("BuyWithWrongCSRFToken")

\* C4: in the three cases with an exact message, a matching status and a
\* decodable body whose message differs from the expected one give a failure
\* that carries the underlying cause and a diagnostic.
C4_MessageMismatchFails ==
    (/\ Returned
     /\ call.case \in ExactCases
     /\ Answered
     /\ res.status = ExpectedStatus(call)
     /\ BodyDecodes
     /\ DecodedMessage # ExpectedMsg(call)) =>
        /\ ~result.isNil
        /\ result.cause # NoErr
        /\ result.diag # NoDiag

\* C5: against the system under test, ShipWithWrongSeller returns success
\* exactly when the session does not own the item.
C5_WrongSellerVerdict ==
    (Returned /\ Answered /\ IsCase("ShipWithWrongSeller")) =>
        (result.isNil <=> Seller(call.itemID) # call.user)

\* C6: against the system under test, SellWithWrongPrice sends the session's
\* token and returns success exactly when the price is outside
\* [100, 1000000].
C6_WrongPriceVerdict ==
    (IsCase("SellWithWrongPrice") /\ Returned /\ Answered) =>
        /\ req.csrfToken = established[call.user]
        /\ result.isNil <=> PriceOutOfRange

C6_Witness ==
    /\ IsCase("SellWithWrongPrice")
    /\ Returned
    /\ call.price = 1000000
    /\ Answered
    /\ ~result.isNil

\* C7: a case whose message is "don't care" returns success exactly when the
\* transport succeeded, the status is the case's fixed status (401 for the
\* login, 422 for the three forged-token cases) and the body decodes.
C7_DontCareVerdict ==
    (Returned /\ call.case \in DontCareCases) =>
        (result.isNil <=>
            /\ Answered
            /\ res.status = (IF IsCase("LoginWithWrongPassword")
                             THEN 401 ELSE 422)
            /\ BodyDecodes)

C7_Witness ==
    /\ Returned
    /\ IsCase("ShipWithWrongCSRFToken")
    /\ res.body.kind = "envelope"
    /\ res.body.msg = ForbiddenMsg
    /\ result.isNil

\* C9: a failure of the random source aborts the run: nothing is sent and the
\* case returns neither a failure nor success; only the four forged-token
\* cases can abort.
C9_RandomFailureAborts ==
    /\ err = "crandReadErr" =>
           /\ pc = "panicked"
           /\ sends = 0
           /\ req = NoReq
           /\ result = Pending
    /\ pc = "panicked" => (err = "crandReadErr" /\ call.case \in ForgedCases)

C9_Witness ==
    /\ pc = "panicked"
    /\ IsCase("SellWithWrongCSRFToken")
    /\ sends = 0

\* C10: BuyWithFailed sends the session's own token and returns success
\* exactly when the transport succeeded, the status is expectedStatus, the
\* body decodes and the decoded message is expectedMsg; an empty expectedMsg
\* matches only an empty message.
C10_BuyWithFailedVerdict ==
    (IsCase("BuyWithFailed") /\ pc # "panicked") =>
        /\ req # NoReq => req.csrfToken = csrfToken[call.user]
        /\ Returned =>
               (result.isNil <=>
                   /\ Answered
                   /\ res.status = call.expectedStatus
                   /\ BodyDecodes
                   /\ DecodedMessage = call.expectedMsg)

C10_Witness ==
    /\ IsCase("BuyWithFailed")
    /\ Returned
    /\ call.expectedMsg = ""
    /\ res.status = call.expectedStatus
    /\ res.body.kind = "envelope"
    /\ res.body.msg # ""
    /\ ~result.isNil


--------------------------------------------------------------------------
(* The verdict the oracle of case c gives on response r *)
Verdict(c, r) ==
    /\ r # NoRes
    /\ r.status = ExpectedStatus(c)
    /\ r.body.kind \in {"envelope", "object"}
    /\ c.case \in ExactCases =>
           (IF r.body.kind = "envelope" THEN r.body.msg ELSE "") = ExpectedMsg(c)

(* The verdict of the current invocation had the system under test been    *)
(* left as it was at the start                                             *)
VerdictOnUntouchedSUT == Verdict(call, SutResponseAt(req, call.user, {}))

SameVerdictAsAtStart ==
    (Returned /\ Answered) => (result.isNil <=> VerdictOnUntouchedSUT)

RejectedByDesign ==
    \/ call.case \in ForgedCases \cup {"LoginWithWrongPassword"}
    \/ IsCase("SellWithWrongPrice") /\ PriceOutOfRange
    \/ Answered /\ res.status >= 400

\* C8 (as claimed): no invocation of any case, with any arguments, changes
\* the listings or the sold flags of the system under test, and every
\* answered invocation yields the verdict it yields against the untouched
\* system under test.
C8_NoCaseHasSideEffect ==
    [][/\ listings' = listings
       /\ sold' = sold
       /\ SameVerdictAsAtStart']_vars

\* C8 (amended): LoginWithWrongPassword, the four forged-token cases,
\* SellWithWrongPrice with a price outside [100, 1000000] and every request
\* the system under test rejects leave the listings and the sold flags
\* unchanged, and every answered invocation of a case other than
\* BuyWithFailed yields the verdict it yields against the untouched system
\* under test.
C8_RejectedCaseHasNoSideEffect ==
    [][/\ RejectedByDesign' => (listings' = listings /\ sold' = sold)
       /\ ~IsCase("BuyWithFailed")' => SameVerdictAsAtStart']_vars

C8_Witness ==
    /\ Returned
    /\ IsCase("BuyWithWrongCSRFToken")
    /\ Answered
    /\ call.itemID \in sold
    /\ listings > 0
    /\ result.isNil

==========================================================================
